---- MODULE Spec2Model ----
(***************************************************************************)
(* Model of the generic PDF heading extractor                              *)
(* (src/main_hackathon_optimized.py, class GenericPDFHeadingExtractor).    *)
(*                                                                         *)
(* Representation.                                                         *)
(*   - A text is a sequence of one-character strings, so that strip,       *)
(*     split, lower, isupper and the regular expressions of the source     *)
(*     are computed character by character.                                *)
(*   - A font size is a natural number (points).  The average size is the  *)
(*     exact fraction size_sum / size_count; every comparison of a size    *)
(*     ratio with a decimal constant is cross-multiplied.                  *)
(*   - A confidence is kept in units of 1/(100*total_blocks), a level      *)
(*     score in the same units, a threshold in hundredths: the position    *)
(*     term (1 - i/total_blocks) * 0.2 is then the integer                 *)
(*     20*(total_blocks - i).  The arithmetic is exact where the source    *)
(*     uses binary floating point: the two agree except where a sum of the *)
(*     source lands exactly on a threshold or on another sum (0.1 + 0.25 + *)
(*     0.1 + 0.05 is 0.49999999999999994 in the source and 0.5 here).      *)
(***************************************************************************)
EXTENDS Integers, Sequences, FiniteSets, TLC

VARIABLES
    all_blocks,            \* the fragment sequence handed to process_document
    confidence_threshold,  \* self.confidence_threshold, in hundredths
    used_texts,            \* the de-duplication set as the last extraction left it
    entry_texts,           \* the set the last invocation found when it was entered
    font_stats,            \* statistics the last invocation computed, or NoStats
    result,                \* what the last process_document returned, or NoResult
    pc,                    \* position of the caller: "parse", "done", "call", "ret"
    args,                  \* arguments of a direct call of the level classifier
    ret                    \* its return value

vars == <<all_blocks, confidence_threshold, used_texts, entry_texts, font_stats,
          result, pc, args, ret>>

(***************************************************************************)
(* Characters and the string methods the source uses.                      *)
(***************************************************************************)
UpperSeq == <<"A", "B", "C", "D", "E", "F", "G", "H", "I", "J", "K", "L", "M",
              "N", "O", "P", "Q", "R", "S", "T", "U", "V", "W", "X", "Y", "Z">>

LowerSeq == <<"a", "b", "c", "d", "e", "f", "g", "h", "i", "j", "k", "l", "m",
              "n", "o", "p", "q", "r", "s", "t", "u", "v", "w", "x", "y", "z">>

DigitSeq == <<"0", "1", "2", "3", "4", "5", "6", "7", "8", "9">>

UpperChars == {UpperSeq[i] : i \in 1..26}

LowerChars == {LowerSeq[i] : i \in 1..26}

DigitChars == {DigitSeq[i] : i \in 1..10}

\* \s of the regular expressions and the whitespace of strip() and split();
\* the texts of the model hold no other whitespace than the blank and the tab.
SpaceChars == {" ", "\t"}

\* the bullet characters of the 'bullet_point' pattern; a string of the form
\* "U+xxxx" stands for the one character with that code point
BulletChars == {"U+2022", "U+00B7", "U+25AA", "U+25AB", "U+25E6", "U+2023", "U+2043"}

LetterChars == UpperChars \cup LowerChars

lower_char(c) ==
    IF c \in UpperChars
    THEN LowerSeq[CHOOSE i \in 1..26 : UpperSeq[i] = c]
    ELSE c

upper_char(c) ==
    IF c \in LowerChars
    THEN UpperSeq[CHOOSE i \in 1..26 : LowerSeq[i] = c]
    ELSE c

\* str.lower()
lower(t) == [i \in 1..Len(t) |-> lower_char(t[i])]

\* the first index >= i of t that holds no whitespace (Len(t) + 1 when none)
RECURSIVE skip_spaces(_, _)
skip_spaces(t, i) ==
    IF i > Len(t) \/ t[i] \notin SpaceChars THEN i ELSE skip_spaces(t, i + 1)

\* the last index <= i of t that holds no whitespace (0 when none)
RECURSIVE skip_spaces_back(_, _)
skip_spaces_back(t, i) ==
    IF i < 1 \/ t[i] \notin SpaceChars THEN i ELSE skip_spaces_back(t, i - 1)

\* str.strip(): leading and trailing whitespace removed
strip(t) == SubSeq(t, skip_spaces(t, 1), skip_spaces_back(t, Len(t)))

\* len(str.split()): the number of maximal runs of non-whitespace
word_count(t) ==
    Cardinality({i \in 1..Len(t) :
                    /\ t[i] \notin SpaceChars
                    /\ (i = 1 \/ t[i - 1] \in SpaceChars)})

\* str.isupper(): at least one cased character and no lower-case one
isupper(t) ==
    /\ \E i \in 1..Len(t) : t[i] \in UpperChars
    /\ \A i \in 1..Len(t) : t[i] \notin LowerChars

\* keyword in text (substring test)
contains(t, w) ==
    \E i \in 1..(Len(t) - Len(w) + 1) : SubSeq(t, i, i + Len(w) - 1) = w

\* text.startswith(text[0].upper()), for a non-empty text
starts_with_own_upper(t) == t[1] = upper_char(t[1])

(***************************************************************************)
(* Regular expressions, all used through re.match (anchored at the start). *)
(***************************************************************************)
\* the first index >= i of t that holds no digit (Len(t) + 1 when none)
RECURSIVE skip_digits(_, _)
skip_digits(t, i) ==
    IF i > Len(t) \/ t[i] \notin DigitChars THEN i ELSE skip_digits(t, i + 1)

\* \d+ at index i followed by ch: the index after ch, or 0 when there is no match
digits_then(t, i, ch) ==
    LET j == skip_digits(t, i)
    IN  IF j > i /\ j <= Len(t) /\ t[j] = ch THEN j + 1 ELSE 0

\* \s+ at index i
spaces_at(t, i) == i >= 1 /\ i <= Len(t) /\ t[i] \in SpaceChars

\* the index after the longest prefix (\d+\.)* starting at i
RECURSIVE skip_dotted(_, _)
skip_dotted(t, i) ==
    LET j == digits_then(t, i, ".")
    IN  IF j = 0 THEN i ELSE skip_dotted(t, j)

\* r'^\d+\.(\d+\.)*\s+'  (a digit group never matches whitespace, so the
\* greedy repetition decides the match)
match_numbered_section(t) ==
    LET j == digits_then(t, 1, ".")
    IN  j # 0 /\ spaces_at(t, skip_dotted(t, j))

\* r'^\d+\)\s+'
match_numbered_list(t) == spaces_at(t, digits_then(t, 1, ")"))

\* r'^[A-Z]\)\s+', ignore_case: re.IGNORECASE given or not
match_lettered_list(t, ignore_case) ==
    /\ Len(t) >= 3
    /\ t[1] \in (IF ignore_case THEN LetterChars ELSE UpperChars)
    /\ t[2] = ")"
    /\ t[3] \in SpaceChars

\* r'^[bullets]\s+'
match_bullet_point(t) ==
    Len(t) >= 2 /\ t[1] \in BulletChars /\ t[2] \in SpaceChars

\* r'^[A-Z][a-z].*:$'
match_title_case_colon(t, ignore_case) ==
    /\ Len(t) >= 3
    /\ t[1] \in (IF ignore_case THEN LetterChars ELSE UpperChars)
    /\ t[2] \in (IF ignore_case THEN LetterChars ELSE LowerChars)
    /\ t[Len(t)] = ":"

\* r'^[A-Z\s\d\-_]+$'
match_all_caps(t, ignore_case) ==
    /\ Len(t) >= 1
    /\ \A i \in 1..Len(t) :
          t[i] \in (IF ignore_case THEN LetterChars ELSE UpperChars)
                      \cup SpaceChars \cup DigitChars \cup {"-", "_"}

\* r'^[A-Z][a-zA-Z\s]{2,50}$'
match_mixed_case_short(t, ignore_case) ==
    /\ Len(t) >= 3 /\ Len(t) <= 51
    /\ t[1] \in (IF ignore_case THEN LetterChars ELSE UpperChars)
    /\ \A i \in 2..Len(t) : t[i] \in LetterChars \cup SpaceChars

\* r'^\d+\.\s+'
match_level_1(t) == spaces_at(t, digits_then(t, 1, "."))

\* r'^\d+\.\d+\s+'
match_level_2(t) ==
    LET j == digits_then(t, 1, ".")
        k == IF j = 0 THEN 0 ELSE skip_digits(t, j)
    IN  j # 0 /\ k > j /\ spaces_at(t, k)

\* r'^\d+\.\d+\.\d+\s+'
match_level_3(t) ==
    LET j == digits_then(t, 1, ".")
        k == IF j = 0 THEN 0 ELSE digits_then(t, j, ".")
        m == IF k = 0 THEN 0 ELSE skip_digits(t, k)
    IN  k # 0 /\ m > k /\ spaces_at(t, m)

(***************************************************************************)
(* The texts of the fragments of the model.                                *)
(***************************************************************************)
\* k copies of the word w, separated by blanks
RECURSIVE repeat_word(_, _)
repeat_word(w, k) == IF k <= 1 THEN w ELSE w \o <<" ">> \o repeat_word(w, k - 1)

T_Hello == <<"H", "e", "l", "l", "o">>

T_HelloPadded == <<" ", "H", "e", "l", "l", "o", " ">>

T_Introduction == <<"1", ".", " ", "I", "n", "t", "r", "o", "d", "u", "c", "t", "i", "o", "n">>

T_A == <<"A">>

\* 31 words, none of which lets an indicator or a keyword match
T_LongBody == repeat_word(<<"a", ",">>, 31)

T_Goals == <<"G", "o", "a", "l", "s">>

\* the decimal digits of k, 0 <= k < 100
number_text(k) ==
    IF k < 10 THEN <<DigitSeq[k + 1]>>
    ELSE <<DigitSeq[(k \div 10) + 1], DigitSeq[(k % 10) + 1]>>

\* "k. Goals"
numbered_heading(k) == number_text(k) \o <<".", " ">> \o T_Goals

T_ProjectGoals == <<"P", "r", "o", "j", "e", "c", "t", " ", "g", "o", "a", "l", "s">>

T_References == <<"R", "E", "F", "E", "R", "E", "N", "C", "E", "S">>

T_Summary == <<"S", "u", "m", "m", "a", "r", "y", ":">>

T_Background == <<"b", "a", "c", "k", "g", "r", "o", "u", "n", "d">>

MaxLongBlocks == 11

\* the stripped texts of all fragments of the model
ModelTexts ==
    {T_Hello, T_Introduction, T_A, T_LongBody, T_ProjectGoals, T_References, T_Summary,
     T_Background}
        \cup {numbered_heading(k) : k \in 1..MaxLongBlocks}

(***************************************************************************)
(* The tables of __init__.                                                 *)
(***************************************************************************)
\* self.heading_indicators, in the order of the dictionary; every pattern is
\* matched with re.IGNORECASE by _calculate_heading_confidence
heading_indicators == <<"numbered_section", "numbered_list", "lettered_list",
                        "bullet_point", "title_case_colon", "all_caps",
                        "mixed_case_short">>

indicator_matches(name, t) ==
    CASE name = "numbered_section" -> match_numbered_section(t)
      [] name = "numbered_list"    -> match_numbered_list(t)
      [] name = "lettered_list"    -> match_lettered_list(t, TRUE)
      [] name = "bullet_point"     -> match_bullet_point(t)
      [] name = "title_case_colon" -> match_title_case_colon(t, TRUE)
      [] name = "all_caps"         -> match_all_caps(t, TRUE)
      [] name = "mixed_case_short" -> match_mixed_case_short(t, TRUE)

\* self.heading_keywords
structural_keywords ==
    { <<"t", "a", "b", "l", "e", " ", "o", "f", " ", "c", "o", "n", "t", "e", "n", "t", "s">>,
      <<"c", "o", "n", "t", "e", "n", "t", "s">>,
      <<"i", "n", "d", "e", "x">>,
      <<"r", "e", "f", "e", "r", "e", "n", "c", "e", "s">>,
      <<"b", "i", "b", "l", "i", "o", "g", "r", "a", "p", "h", "y">>,
      <<"a", "p", "p", "e", "n", "d", "i", "x">>,
      <<"g", "l", "o", "s", "s", "a", "r", "y">>,
      <<"a", "c", "k", "n", "o", "w", "l", "e", "d", "g", "e", "m", "e", "n", "t", "s">>,
      <<"p", "r", "e", "f", "a", "c", "e">>,
      <<"f", "o", "r", "e", "w", "o", "r", "d">> }

sectional_keywords ==
    { <<"i", "n", "t", "r", "o", "d", "u", "c", "t", "i", "o", "n">>,
      <<"o", "v", "e", "r", "v", "i", "e", "w">>,
      <<"s", "u", "m", "m", "a", "r", "y">>,
      <<"c", "o", "n", "c", "l", "u", "s", "i", "o", "n">>,
      <<"b", "a", "c", "k", "g", "r", "o", "u", "n", "d">>,
      <<"m", "e", "t", "h", "o", "d", "o", "l", "o", "g", "y">>,
      <<"r", "e", "s", "u", "l", "t", "s">>,
      <<"d", "i", "s", "c", "u", "s", "s", "i", "o", "n">>,
      <<"a", "b", "s", "t", "r", "a", "c", "t">>,
      <<"e", "x", "e", "c", "u", "t", "i", "v", "e", " ", "s", "u", "m", "m", "a", "r", "y">> }

organizational_keywords ==
    { <<"c", "h", "a", "p", "t", "e", "r">>,
      <<"s", "e", "c", "t", "i", "o", "n">>,
      <<"p", "a", "r", "t">>,
      <<"u", "n", "i", "t">>,
      <<"m", "o", "d", "u", "l", "e">>,
      <<"l", "e", "s", "s", "o", "n">> }

\* the first category (in dictionary order) one of whose keywords occurs in
\* the lower-cased text, "none" when no keyword occurs: the loop with `break`
keyword_category(text_lower) ==
    IF \E w \in structural_keywords : contains(text_lower, w) THEN "structural"
    ELSE IF \E w \in sectional_keywords : contains(text_lower, w) THEN "sectional"
    ELSE IF \E w \in organizational_keywords : contains(text_lower, w) THEN "organizational"
    ELSE "none"

(***************************************************************************)
(* analyze_font_statistics                                                 *)
(***************************************************************************)
\* the sizes the loop collects: `block.font_size` is false for a zero size
RECURSIVE collect_font_sizes(_)
collect_font_sizes(blocks) ==
    IF blocks = <<>> THEN <<>>
    ELSE LET rest == collect_font_sizes(Tail(blocks))
         IN  IF Head(blocks).font_size # 0
             THEN <<Head(blocks).font_size>> \o rest
             ELSE rest

RECURSIVE insert_sorted(_, _)
insert_sorted(x, s) ==
    IF s = <<>> THEN <<x>>
    ELSE IF x <= Head(s) THEN <<x>> \o s
    ELSE <<Head(s)>> \o insert_sorted(x, Tail(s))

\* sorted(font_sizes)
RECURSIVE sorted(_)
sorted(s) == IF s = <<>> THEN <<>> ELSE insert_sorted(Head(s), sorted(Tail(s)))

RECURSIVE sum_seq(_)
sum_seq(s) == IF s = <<>> THEN 0 ELSE Head(s) + sum_seq(Tail(s))

\* the variant of percentile_index that counts from n - 1
percentile_index_n_minus_1(pct, n) == (pct * (n - 1)) \div 100

\* int(0.75 * n), int(0.90 * n): pct is the percentage, the index is 0-based
percentile_index(pct, n) == (pct * n) \div 100

\* avg_size is the fraction size_sum / size_count; std_size and font_variety
\* are read by no other method and are left out
analyze_font_statistics(blocks) ==
    LET font_sizes == collect_font_sizes(blocks)
        n == Len(font_sizes)
        sorted_sizes == sorted(font_sizes)
    IN  IF font_sizes = <<>>
        THEN [size_sum |-> 12, size_count |-> 1, max_size |-> 12, min_size |-> 12]
        ELSE [size_sum   |-> sum_seq(font_sizes),
              size_count |-> n,
              max_size   |-> sorted_sizes[n],
              min_size   |-> sorted_sizes[1],
              p75_size   |-> sorted_sizes[percentile_index(75, n) + 1],
              p90_size   |-> sorted_sizes[percentile_index(90, n) + 1]]

\* font_size / avg_size >= pct / 100
ratio_at_least(font_size, stats, pct) ==
    100 * font_size * stats.size_count >= pct * stats.size_sum

\* total_blocks * (1.0 - position_ratio), where
\* position_ratio = i / total_blocks if total_blocks > 1 else 0.0
remaining(i, total_blocks) ==
    IF total_blocks > 1 THEN total_blocks - i ELSE total_blocks

(***************************************************************************)
(* _calculate_heading_confidence: its terms, in hundredths                 *)
(***************************************************************************)
confidence_size_term(font_size, stats) ==
    IF ratio_at_least(font_size, stats, 150) THEN 40
    ELSE IF ratio_at_least(font_size, stats, 125) THEN 30
    ELSE IF ratio_at_least(font_size, stats, 110) THEN 20
    ELSE IF ratio_at_least(font_size, stats, 105) THEN 10
    ELSE 0

\* the first indicator that matches, "none" when none does
RECURSIVE first_indicator(_, _)
first_indicator(t, k) ==
    IF k > Len(heading_indicators) THEN "none"
    ELSE IF indicator_matches(heading_indicators[k], t) THEN heading_indicators[k]
    ELSE first_indicator(t, k + 1)

\* the bonus of the indicator that matched
confidence_pattern_bonus(pattern_name) ==
    IF pattern_name = "none" THEN 0
    ELSE IF pattern_name \in {"numbered_section", "numbered_list"} THEN 25
    ELSE IF pattern_name \in {"title_case_colon", "all_caps"} THEN 20
    ELSE 15

confidence_pattern_term(t) == confidence_pattern_bonus(first_indicator(t, 1))

confidence_keyword_bonus(category) ==
    CASE category = "structural"     -> 25
      [] category = "sectional"      -> 20
      [] category = "organizational" -> 15
      [] OTHER                       -> 0

confidence_keyword_term(t) == confidence_keyword_bonus(keyword_category(lower(t)))

confidence_length_bonus(wc) ==
    IF 2 <= wc /\ wc <= 10 THEN 10
    ELSE IF wc <= 20 THEN 5
    ELSE IF wc > 30 THEN -10
    ELSE 0

confidence_length_term(t) == confidence_length_bonus(word_count(t))

(***************************************************************************)
(* classify_heading_level_dynamic: its terms in hundredths; both scores in *)
(* units of 1/(100 * total_blocks); a level as its number (1 for 'H1')     *)
(***************************************************************************)
\* the variant that tests the lowest tier of the ratio first
level_size_term_ascending(font_size, stats) ==
    IF 100 * font_size >= 95 * stats.max_size THEN 400
    ELSE IF ratio_at_least(font_size, stats, 105) THEN 200
    ELSE 100

level_size_term(font_size, stats) ==
    IF 100 * font_size >= 95 * stats.max_size THEN 400
    ELSE IF ratio_at_least(font_size, stats, 140) THEN 350
    ELSE IF ratio_at_least(font_size, stats, 125) THEN 300
    ELSE IF ratio_at_least(font_size, stats, 115) THEN 250
    ELSE IF ratio_at_least(font_size, stats, 105) THEN 200
    ELSE 100

\* the cascade without its first branch
level_pattern_term_no_numbered(text_clean) ==
    IF match_level_2(text_clean) THEN 40
    ELSE IF match_level_3(text_clean) THEN 20
    ELSE IF isupper(text_clean) /\ word_count(text_clean) <= 6 THEN 60
    ELSE IF match_title_case_colon(text_clean, FALSE) THEN 30
    ELSE 0

level_pattern_term(text_clean) ==
    IF match_level_1(text_clean) THEN 80
    ELSE IF match_level_2(text_clean) THEN 40
    ELSE IF match_level_3(text_clean) THEN 20
    ELSE IF isupper(text_clean) /\ word_count(text_clean) <= 6 THEN 60
    ELSE IF match_title_case_colon(text_clean, FALSE) THEN 30
    ELSE 0

level_keyword_bonus(category) ==
    CASE category = "structural"     -> 70
      [] category = "sectional"      -> 50
      [] category = "organizational" -> 40
      [] OTHER                       -> 0

level_keyword_term(text_clean) == level_keyword_bonus(keyword_category(lower(text_clean)))

\* `if word_count > 15: -0.5  elif word_count > 25: -1.0`
level_length_penalty(wc) ==
    IF wc > 15 THEN -50
    ELSE IF wc > 25 THEN -100
    ELSE 0

level_length_term(text_clean) == level_length_penalty(word_count(text_clean))

\* the terms of both scores that depend on the text alone
text_terms(t) ==
    [conf_pattern  |-> confidence_pattern_term(t),
     conf_keyword  |-> confidence_keyword_term(t),
     conf_length   |-> confidence_length_term(t),
     conf_capital  |-> IF starts_with_own_upper(t) THEN 5 ELSE 0,
     level_pattern |-> level_pattern_term(strip(t)),
     level_keyword |-> level_keyword_term(strip(t)),
     level_length  |-> level_length_term(strip(t))]

\* text_terms of the texts of the model, computed once
TextTerms == [t \in ModelTexts |-> text_terms(t)]

terms_of(t) == IF t \in ModelTexts THEN TextTerms[t] ELSE text_terms(t)

min2(a, b) == IF a <= b THEN a ELSE b

max2(a, b) == IF a >= b THEN a ELSE b

confidence_sum(terms, font_size, stats, is_bold, i, total_blocks) ==
    total_blocks * ( confidence_size_term(font_size, stats)
                   + (IF is_bold THEN 15 ELSE 0)
                   + terms.conf_pattern
                   + terms.conf_keyword
                   + terms.conf_length
                   + terms.conf_capital )
    + 20 * remaining(i, total_blocks)

\* the sum before `return min(confidence, 1.0)`
raw_confidence(t, font_size, stats, is_bold, i, total_blocks) ==
    confidence_sum(terms_of(t), font_size, stats, is_bold, i, total_blocks)

\* the confidence without the cap at 1.0
calculate_heading_confidence_uncapped(t, font_size, stats, is_bold, i, total_blocks) ==
    raw_confidence(t, font_size, stats, is_bold, i, total_blocks)

\* `return min(confidence, 1.0)`
calculate_heading_confidence(t, font_size, stats, is_bold, i, total_blocks) ==
    min2(raw_confidence(t, font_size, stats, is_bold, i, total_blocks), 100 * total_blocks)

level_sum(terms, font_size, stats, is_bold, i, total_blocks) ==
    total_blocks * ( level_size_term(font_size, stats)
                   + (IF is_bold THEN 50 ELSE 0)
                   + terms.level_pattern
                   + terms.level_keyword
                   + terms.level_length )
    + 30 * remaining(i, total_blocks)

level_score(t, font_size, stats, is_bold, i, total_blocks) ==
    level_sum(terms_of(t), font_size, stats, is_bold, i, total_blocks)

\* `if level_score >= 3.8: return 'H1' ...`
level_of_score(score, total_blocks) ==
    IF score >= 380 * total_blocks THEN 1
    ELSE IF score >= 300 * total_blocks THEN 2
    ELSE IF score >= 220 * total_blocks THEN 3
    ELSE 4

classify_heading_level_dynamic(t, font_size, stats, is_bold, i, total_blocks) ==
    level_of_score(level_score(t, font_size, stats, is_bold, i, total_blocks), total_blocks)

(***************************************************************************)
(* _calculate_dynamic_heading_limit                                        *)
(***************************************************************************)
base_heading_limit(total_blocks) == max2(5, min2(50, total_blocks \div 20))

\* the variant that never limits
calculate_dynamic_heading_limit_keep_all(total_blocks, candidate_count) ==
    candidate_count

\* the variant that halves the limit of a crowded document
calculate_dynamic_heading_limit_halved(total_blocks, candidate_count) ==
    LET base_limit == base_heading_limit(total_blocks)
    IN  IF candidate_count > base_limit * 2 THEN base_limit \div 2
        ELSE IF candidate_count < base_limit \div 2
             THEN min2(candidate_count, base_limit * 2)
        ELSE base_limit

calculate_dynamic_heading_limit(total_blocks, candidate_count) ==
    LET base_limit == base_heading_limit(total_blocks)
    IN  IF candidate_count > base_limit * 2 THEN base_limit
        ELSE IF candidate_count < base_limit \div 2
             THEN min2(candidate_count, base_limit * 2)
        ELSE base_limit

(***************************************************************************)
(* extract_headings_dynamic                                                *)
(***************************************************************************)
\* the variant of fresh_used_texts that keeps the set of the last run
fresh_used_texts_kept(left_over) == left_over

\* `used_texts = set()`: the set a run starts with, whatever the last run left
fresh_used_texts(left_over) == {}

\* the variant of is_duplicate that skips nothing
is_duplicate_never(text, used) == FALSE

\* `if text in used_texts: continue`
is_duplicate(text, used) == text \in used

\* lines 260-275: the threshold test and what it appends; acc holds the
\* headings and the de-duplication set so far
consider(block, text, i, confidence, threshold, stats, total_blocks, acc) ==
    IF confidence >= threshold * total_blocks
    THEN [headings |-> Append(acc.headings,
                              [level      |-> classify_heading_level_dynamic(
                                                  text, block.font_size, stats,
                                                  block.is_bold, i, total_blocks),
                               text       |-> text,
                               page       |-> block.page,
                               confidence |-> confidence,
                               font_size  |-> block.font_size,
                               position   |-> i]),
          used     |-> acc.used \cup {text}]
    ELSE acc

\* lines 240-275: one iteration of the loop, text = block.text.strip()
visit(block, text, i, threshold, stats, total_blocks, acc) ==
    IF Len(text) < 2 THEN acc
    ELSE IF is_duplicate(text, acc.used) THEN acc
    ELSE consider(block, text, i,
                  calculate_heading_confidence(text, block.font_size, stats,
                                               block.is_bold, i, total_blocks),
                  threshold, stats, total_blocks, acc)

\* the loop over enumerate(blocks), from the 0-based index i on
RECURSIVE scan_blocks(_, _, _, _, _)
scan_blocks(blocks, i, threshold, stats, acc) ==
    IF i >= Len(blocks) THEN acc
    ELSE scan_blocks(blocks, i + 1, threshold, stats,
                     visit(blocks[i + 1], strip(blocks[i + 1].text), i, threshold,
                           stats, Len(blocks), acc))

\* the order of headings.sort(key=(confidence, -position), reverse=True)
sorts_before(a, b) ==
    \/ a.confidence > b.confidence
    \/ a.confidence = b.confidence /\ a.position < b.position

RECURSIVE insert_heading(_, _)
insert_heading(h, s) ==
    IF s = <<>> THEN <<h>>
    ELSE IF sorts_before(h, Head(s)) THEN <<h>> \o s
    ELSE <<Head(s)>> \o insert_heading(h, Tail(s))

\* the variant that leaves the candidates in document order
sort_headings_document_order(s) == s

RECURSIVE sort_headings(_)
sort_headings(s) ==
    IF s = <<>> THEN <<>> ELSE insert_heading(Head(s), sort_headings(Tail(s)))

\* the internal fields removed
final_heading(h) == [level |-> h.level, text |-> h.text, page |-> h.page]

NoStats == "no statistics"

\* headings[:max_headings]
take(s, max_headings) == SubSeq(s, 1, min2(max_headings, Len(s)))

\* lines 277-292: sort, limit, projection
final_headings(headings, total_blocks) ==
    LET kept == take(sort_headings(headings),
                     calculate_dynamic_heading_limit(total_blocks, Len(headings)))
    IN  [k \in DOMAIN kept |-> final_heading(kept[k])]

\* what a run over a non-empty document returns and leaves behind
run_of(scan, stats, total_blocks) ==
    [outline  |-> final_headings(scan.headings, total_blocks),
     headings |-> scan.headings,
     used     |-> scan.used,
     stats    |-> stats]

\* one run: the outline returned, the candidates before the sort and the
\* de-duplication set and statistics the run leaves behind
extract_headings_run(blocks, threshold, left_over) ==
    IF blocks = <<>>
    THEN [outline |-> <<>>, headings |-> <<>>, used |-> left_over, stats |-> NoStats]
    ELSE run_of(scan_blocks(blocks, 0, threshold, analyze_font_statistics(blocks),
                            [headings |-> <<>>, used |-> fresh_used_texts(left_over)]),
                analyze_font_statistics(blocks), Len(blocks))

extract_headings_dynamic(blocks, threshold, left_over) ==
    extract_headings_run(blocks, threshold, left_over).outline

(***************************************************************************)
(* extract_title_dynamic; a score in units of 1/(200 * search_limit)       *)
(***************************************************************************)
\* the variant that searches the whole document
title_search_limit_whole(blocks) == Len(blocks)

title_search_limit(blocks) == min2(30, max2(10, Len(blocks) \div 5))

title_score(block, i, search_limit, stats) ==
    LET text == strip(block.text)
        wc == word_count(text)
        size_term == IF block.font_size = 0 THEN 0
                     ELSE IF ratio_at_least(block.font_size, stats, 150) THEN 40
                     ELSE IF ratio_at_least(block.font_size, stats, 120) THEN 30
                     ELSE IF ratio_at_least(block.font_size, stats, 110) THEN 20
                     ELSE 0
        length_term == IF 2 <= wc /\ wc <= 15 THEN 20
                       ELSE IF wc <= 25 THEN 10
                       ELSE 0
        bold_term == IF block.is_bold THEN 10 ELSE 0
        capital_term == IF text[1] \in UpperChars THEN 10 ELSE 0
        colon_term == IF (\E k \in 1..Len(text) : text[k] = ":") /\ text[Len(text)] # ":"
                      THEN 10 ELSE 0
        sum == search_limit * (size_term + length_term + bold_term + capital_term + colon_term)
               + 30 * (search_limit - i)
    IN  IF Len(text) < 10 \/ Len(text) > 200 THEN sum ELSE 2 * sum

\* title_candidates: the 0-based window indices with a text of 3 characters
\* or more, each with its score
title_candidates(blocks) ==
    LET stats == analyze_font_statistics(blocks)
        search_limit == title_search_limit(blocks)
        window == 0..(min2(search_limit, Len(blocks)) - 1)
    IN  [i \in {e \in window : Len(strip(blocks[e + 1].text)) >= 3} |->
            title_score(blocks[i + 1], i, search_limit, stats)]

extract_title_dynamic(blocks) ==
    IF blocks = <<>> THEN <<>>
    ELSE
      LET score == title_candidates(blocks)
          candidates == DOMAIN score
          size(i) == blocks[i + 1].font_size
          \* the order of sort(key=(score, font size, -index), reverse=True)
          before(i, j) ==
              \/ score[i] > score[j]
              \/ score[i] = score[j] /\ size(i) > size(j)
              \/ score[i] = score[j] /\ size(i) = size(j) /\ i <= j
      IN  IF candidates = {} THEN strip(blocks[1].text)
          ELSE LET best == CHOOSE i \in candidates : \A j \in candidates : before(i, j)
               IN  strip(blocks[best + 1].text)

(***************************************************************************)
(* process_document                                                        *)
(***************************************************************************)
\* the variant of empty_result with a placeholder title
empty_result_untitled ==
    [title |-> <<"U", "n", "t", "i", "t", "l", "e", "d">>, outline |-> <<>>]

\* `return {'title': '', 'outline': []}`
empty_result == [title |-> <<>>, outline |-> <<>>]

\* one invocation: what it returns, and what its extraction leaves behind
result_of(blocks, run) ==
    [result |-> IF blocks = <<>> THEN empty_result
                ELSE [title   |-> extract_title_dynamic(blocks),
                      outline |-> run.outline],
     used   |-> run.used,
     stats  |-> run.stats]

process_document_run(blocks, threshold, left_over) ==
    result_of(blocks, extract_headings_run(blocks, threshold, left_over))

process_document(blocks, threshold, left_over) ==
    process_document_run(blocks, threshold, left_over).result

(***************************************************************************)
(* The documents of the model: the fragments the parser hands over         *)
(* (process_pdf_generic appends one TextBlock per span to all_blocks).     *)
(***************************************************************************)
\* text, size and boldness of the fragments of the short documents
ShortKinds ==
    { [text |-> T_Hello,        font_size |-> 12, is_bold |-> FALSE],
      [text |-> T_HelloPadded,  font_size |-> 18, is_bold |-> TRUE],
      [text |-> T_Introduction, font_size |-> 18, is_bold |-> TRUE],
      [text |-> T_A,            font_size |-> 12, is_bold |-> FALSE],
      [text |-> T_LongBody,     font_size |-> 12, is_bold |-> FALSE] }

\* the thresholds an extractor is constructed with, in hundredths
Thresholds == {30, 50, 70}

DefaultThreshold == 50

MaxBlocks == 3

BlocksPerPage == 2

NoResult == "no result"

NoArgs == "no call"

NoRet == "no return"

text_block(kind, page) ==
    [text |-> kind.text, font_size |-> kind.font_size, is_bold |-> kind.is_bold,
     page |-> page]

\* the documents of the model hold BlocksPerPage fragments on every page
next_page(blocks) == (Len(blocks) \div BlocksPerPage) + 1

(***************************************************************************)
(* Spec: one extractor instance processing short documents one after the   *)
(* other.                                                                  *)
(***************************************************************************)
Init ==
    /\ all_blocks = <<>>
    /\ confidence_threshold \in Thresholds
    /\ used_texts = {}
    /\ entry_texts = {}
    /\ font_stats = NoStats
    /\ result = NoResult
    /\ pc = "parse"
    /\ args = NoArgs
    /\ ret = NoRet

\* all_blocks.append(text_block)
AppendBlock ==
    /\ pc = "parse"
    /\ Len(all_blocks) < MaxBlocks
    /\ \E kind \in ShortKinds :
         all_blocks' = Append(all_blocks, text_block(kind, next_page(all_blocks)))
    /\ UNCHANGED <<confidence_threshold, used_texts, entry_texts, font_stats, result,
                   pc, args, ret>>

\* result = extractor.process_document(all_blocks), also a second time on
\* the same blocks
ProcessDocument ==
    /\ pc \in {"parse", "done"}
    /\ \E run \in {process_document_run(all_blocks, confidence_threshold, used_texts)} :
           /\ result' = run.result
           /\ used_texts' = run.used
           /\ entry_texts' = used_texts
           /\ font_stats' = run.stats
    /\ pc' = "done"
    /\ UNCHANGED <<all_blocks, confidence_threshold, args, ret>>

\* the same instance is handed the next document
NextDocument ==
    /\ pc = "done"
    /\ all_blocks' = <<>>
    /\ result' = NoResult
    /\ font_stats' = NoStats
    /\ entry_texts' = {}
    /\ pc' = "parse"
    /\ UNCHANGED <<confidence_threshold, used_texts, args, ret>>

Next == AppendBlock \/ ProcessDocument \/ NextDocument

Spec == Init /\ [][Next]_vars

(***************************************************************************)
(* Properties of Spec.                                                      *)
(***************************************************************************)
\* fragment i (0-based) of the document of the state
block_at(i) == all_blocks[i + 1]

stripped_text_at(i) == strip(block_at(i).text)

confidence_at(i) ==
    calculate_heading_confidence(stripped_text_at(i), block_at(i).font_size,
                                 analyze_font_statistics(all_blocks),
                                 block_at(i).is_bold, i, Len(all_blocks))

level_at(i) ==
    classify_heading_level_dynamic(stripped_text_at(i), block_at(i).font_size,
                                   analyze_font_statistics(all_blocks),
                                   block_at(i).is_bold, i, Len(all_blocks))

\* fragment i is long enough and meets the threshold of the extractor
qualifies(i) ==
    /\ Len(stripped_text_at(i)) >= 2
    /\ confidence_at(i) >= confidence_threshold * Len(all_blocks)

\* C1: the outline process_document returns never holds two entries with the
\* same text, every entry's text is non-empty, and every entry carries the
\* page and level of the earliest fragment with that stripped text that meets
\* the threshold.
C1_UniqueTextsEarliestWins ==
    pc = "done" =>
      LET outline == result.outline
          positions == 0..(Len(all_blocks) - 1)
      IN  /\ \A j, k \in 1..Len(outline) :
                j # k => outline[j].text # outline[k].text
          /\ \A j \in 1..Len(outline) : outline[j].text # <<>>
          /\ \A j \in 1..Len(outline) :
                \E i \in positions :
                    /\ qualifies(i)
                    /\ stripped_text_at(i) = outline[j].text
                    /\ \A e \in positions :
                          (e < i /\ stripped_text_at(e) = outline[j].text) => ~qualifies(e)
                    /\ outline[j].page = block_at(i).page
                    /\ outline[j].level = level_at(i)

\* C1 witness: two fragments on different pages with the same stripped text
\* both meet the threshold, and the outline holds that text once, with the
\* page of the earlier one.
C1_Witness ==
    /\ pc = "done"
    /\ \E i, k \in 0..(Len(all_blocks) - 1) :
          /\ i < k
          /\ stripped_text_at(i) = stripped_text_at(k)
          /\ qualifies(i) /\ qualifies(k)
          /\ block_at(i).page # block_at(k).page
          /\ \E j \in 1..Len(result.outline) :
                /\ result.outline[j].text = stripped_text_at(i)
                /\ result.outline[j].page = block_at(i).page

\* C4: whatever the instance processed before, an invocation returns what an
\* invocation entered with an empty de-duplication set returns for the same
\* fragments and threshold.
C4_ResultIndependentOfHistory ==
    pc = "done" => result = process_document(all_blocks, confidence_threshold, {})

\* C4 witness: an invocation has returned an outline entry whose text the
\* preceding invocation of the same instance had accepted as a heading.
C4_Witness ==
    /\ pc = "done"
    /\ \E j \in 1..Len(result.outline) : result.outline[j].text \in entry_texts

\* C5 as stated: with the default threshold the document of the one non-bold
\* fragment "Hello" gets the title "Hello" and an empty outline.
C5_HelloTitleEmptyOutline ==
    ( /\ pc = "done"
      /\ confidence_threshold = DefaultThreshold
      /\ Len(all_blocks) = 1
      /\ all_blocks[1].text = T_Hello
      /\ ~all_blocks[1].is_bold )
    => result = [title |-> T_Hello, outline |-> <<>>]

\* C7 as stated: the confidence of every fragment with a text of at least two
\* characters lies in [0.0, 1.0].
C7_ConfidenceInUnitInterval ==
    pc = "done" =>
      \A i \in 0..(Len(all_blocks) - 1) :
        Len(stripped_text_at(i)) >= 2 =>
            /\ confidence_at(i) >= 0
            /\ confidence_at(i) <= 100 * Len(all_blocks)

\* C7 amended: the confidence of every fragment with a text of at least two
\* characters is at most 1.0 and above -0.1, and it is not negative unless
\* the text has more than 30 words.
C7_ConfidenceCappedAboveOnly ==
    pc = "done" =>
      \A i \in 0..(Len(all_blocks) - 1) :
        Len(stripped_text_at(i)) >= 2 =>
            /\ confidence_at(i) <= 100 * Len(all_blocks)
            /\ confidence_at(i) > -10 * Len(all_blocks)
            /\ word_count(stripped_text_at(i)) <= 30 => confidence_at(i) >= 0

\* C7 witness: a processed document in which the cap at 1.0 cut one
\* fragment's sum and another fragment's confidence is negative.
C7_Witness ==
    /\ pc = "done"
    /\ \E i, k \in 0..(Len(all_blocks) - 1) :
          /\ Len(stripped_text_at(i)) >= 2
          /\ raw_confidence(stripped_text_at(i), block_at(i).font_size,
                            analyze_font_statistics(all_blocks),
                            block_at(i).is_bold, i, Len(all_blocks))
                > 100 * Len(all_blocks)
          /\ confidence_at(i) = 100 * Len(all_blocks)
          /\ Len(stripped_text_at(k)) >= 2
          /\ confidence_at(k) < 0

\* C10: process_document on the empty fragment sequence returns the empty
\* title and the empty outline, and computes no font statistics.
C10_EmptyDocument ==
    (pc = "done" /\ all_blocks = <<>>) =>
        /\ result = [title |-> <<>>, outline |-> <<>>]
        /\ font_stats = NoStats

\* C10 witness: the empty sequence has been processed.
C10_Witness ==
    /\ pc = "done"
    /\ all_blocks = <<>>
    /\ result.title = <<>>
    /\ result.outline = <<>>

(***************************************************************************)
(* SpecLong: documents long enough for the adaptive limit to cut:          *)
(* numbered headings "k. Goals", all different, and at most MaxBodyBlocks  *)
(* fragments "Hello" among them.                                           *)
(***************************************************************************)
MaxBodyBlocks == 2

body_count(blocks) == Cardinality({k \in 1..Len(blocks) : blocks[k].text = T_Hello})

AppendLongBlock ==
    /\ pc = "parse"
    /\ Len(all_blocks) < MaxLongBlocks
    /\ \E heading \in BOOLEAN :
         /\ heading \/ body_count(all_blocks) < MaxBodyBlocks
         /\ all_blocks' =
            Append(all_blocks,
                   IF heading
                   THEN [text |-> numbered_heading(Len(all_blocks) + 1),
                         font_size |-> 18, is_bold |-> FALSE,
                         page |-> next_page(all_blocks)]
                   ELSE [text |-> T_Hello, font_size |-> 12, is_bold |-> FALSE,
                         page |-> next_page(all_blocks)])
    /\ UNCHANGED <<confidence_threshold, used_texts, entry_texts, font_stats, result,
                   pc, args, ret>>

NextLong == AppendLongBlock \/ ProcessDocument

SpecLong == Init /\ [][NextLong]_vars

\* the stripped texts of the document that some fragment makes a candidate
\* under threshold t
candidate_texts(t) ==
    {stripped_text_at(i) : i \in {e \in 0..(Len(all_blocks) - 1) :
        /\ Len(stripped_text_at(e)) >= 2
        /\ confidence_at(e) >= t * Len(all_blocks)}}

\* C2: the outline is never longer than 2 * max(5, min(50, totalFragments div 20)).
C2_OutlineWithinTwiceBase ==
    pc = "done" =>
        Len(result.outline) <= 2 * max2(5, min2(50, Len(all_blocks) \div 20))

\* C2 witness: more candidates than twice the base limit, and an outline cut
\* to the base limit.
C2_Witness ==
    /\ pc = "done"
    /\ Cardinality(candidate_texts(confidence_threshold))
          > 2 * max2(5, min2(50, Len(all_blocks) \div 20))
    /\ Len(result.outline) = max2(5, min2(50, Len(all_blocks) \div 20))

\* C3: for the same fragments, a threshold at least as high as the
\* extractor's gives an outline that is not longer.
C3_ThresholdMonotone ==
    pc = "done" =>
        \A t \in Thresholds :
            t >= confidence_threshold =>
                Len(extract_headings_dynamic(all_blocks, t, {})) <= Len(result.outline)

\* C3 witness: the limit cut the outline of the state, duplicates were
\* skipped, and a higher threshold gives a strictly shorter outline.
C3_Witness ==
    /\ pc = "done"
    /\ Cardinality(candidate_texts(confidence_threshold)) > Len(result.outline)
    /\ \E i, k \in 0..(Len(all_blocks) - 1) :
          i < k /\ stripped_text_at(i) = stripped_text_at(k) /\ qualifies(i) /\ qualifies(k)
    /\ \E t \in Thresholds :
          /\ t > confidence_threshold
          /\ Len(extract_headings_dynamic(all_blocks, t, {})) < Len(result.outline)

(***************************************************************************)
(* SpecStats: analyze_font_statistics called on documents whose font sizes *)
(* are, in any order, some of the sizes of ExampleSizes.                   *)
(***************************************************************************)
ExampleSizes == <<10, 10, 10, 10, 12, 12, 14, 16, 20>>

times_in(sizes, x) == Cardinality({k \in 1..Len(sizes) : sizes[k] = x})

AppendSized ==
    /\ pc = "parse"
    /\ \E k \in 1..Len(ExampleSizes) :
         /\ times_in(collect_font_sizes(all_blocks), ExampleSizes[k])
               < times_in(ExampleSizes, ExampleSizes[k])
         /\ all_blocks' =
               Append(all_blocks,
                      [text |-> T_Hello, font_size |-> ExampleSizes[k],
                       is_bold |-> FALSE, page |-> next_page(all_blocks)])
    /\ UNCHANGED <<confidence_threshold, used_texts, entry_texts, font_stats, result,
                   pc, args, ret>>

\* font_stats = extractor.analyze_font_statistics(all_blocks)
AnalyzeStatistics ==
    /\ pc = "parse"
    /\ font_stats' = analyze_font_statistics(all_blocks)
    /\ pc' = "done"
    /\ UNCHANGED <<all_blocks, confidence_threshold, used_texts, entry_texts, result,
                   args, ret>>

InitStats == Init /\ confidence_threshold = DefaultThreshold

NextStats == AppendSized \/ AnalyzeStatistics

SpecStats == InitStats /\ [][NextStats]_vars

\* v is the element at 0-based index idx of the ascending order of sizes
is_order_statistic(sizes, idx, v) ==
    /\ Cardinality({k \in 1..Len(sizes) : sizes[k] < v}) <= idx
    /\ idx < Cardinality({k \in 1..Len(sizes) : sizes[k] <= v})

has_example_sizes(blocks) ==
    /\ Len(blocks) = Len(ExampleSizes)
    /\ \A k \in 1..Len(ExampleSizes) :
          times_in(collect_font_sizes(blocks), ExampleSizes[k])
             = times_in(ExampleSizes, ExampleSizes[k])

\* C6 as stated: for the sizes [10,10,10,10,12,12,14,16,20] p75_size is 16
\* and p90_size is 20.
C6_ExampleP75Is16 ==
    (pc = "done" /\ has_example_sizes(all_blocks)) =>
        font_stats.p75_size = 16 /\ font_stats.p90_size = 20

\* C6 amended: p75_size and p90_size are the elements at the 0-based indices
\* floor(0.75*n) and floor(0.90*n) of the ascending order of the n font
\* sizes; for the sizes [10,10,10,10,12,12,14,16,20] that is p75_size = 14
\* (index 6) and p90_size = 20 (index 8).
C6_PercentilesAtFloorIndex ==
    (pc = "done" /\ all_blocks # <<>>) =>
        LET sizes == collect_font_sizes(all_blocks)
            n == Len(sizes)
        IN  /\ is_order_statistic(sizes, (75 * n) \div 100, font_stats.p75_size)
            /\ is_order_statistic(sizes, (90 * n) \div 100, font_stats.p90_size)
            /\ has_example_sizes(all_blocks) =>
                  font_stats.p75_size = 14 /\ font_stats.p90_size = 20

\* C6 witness: the statistics of the nine example sizes, given out of order.
C6_Witness ==
    /\ pc = "done"
    /\ has_example_sizes(all_blocks)
    /\ all_blocks[1].font_size = 20
    /\ font_stats.p75_size = 14
    /\ font_stats.p90_size = 20

(***************************************************************************)
(* SpecLevel: classify_heading_level_dynamic called for two fragments of   *)
(* one document of LevelTotal fragments with average font size 20.         *)
(***************************************************************************)
LevelTotal == 10

level_stats(max_size) ==
    [size_sum |-> 20 * LevelTotal, size_count |-> LevelTotal,
     max_size |-> max_size, min_size |-> 10]

LevelTexts == {T_ProjectGoals, T_Introduction, T_References, T_Summary, T_LongBody}

\* a fragment as the classifier sees it: text, size, boldness, 0-based index
LevelFragments ==
    [text : LevelTexts, font_size : {21, 26, 40}, is_bold : BOOLEAN,
     i : {0, LevelTotal - 1}]

LevelCalls ==
    {c \in [stats : {level_stats(m) : m \in {26, 27, 28, 40, 50}},
            total : {LevelTotal},
            a : LevelFragments,
            b : LevelFragments] :
        /\ c.a.font_size <= c.stats.max_size
        /\ c.b.font_size <= c.stats.max_size}

InitLevel ==
    /\ all_blocks = <<>>
    /\ confidence_threshold = DefaultThreshold
    /\ used_texts = {}
    /\ entry_texts = {}
    /\ font_stats = NoStats
    /\ result = NoResult
    /\ pc = "call"
    /\ args \in LevelCalls
    /\ ret = NoRet

classify_fragment(f, stats, total) ==
    classify_heading_level_dynamic(f.text, f.font_size, stats, f.is_bold, f.i, total)

\* level = self.classify_heading_level_dynamic(...) for both fragments
ClassifyPair ==
    /\ pc = "call"
    /\ ret' = [a |-> classify_fragment(args.a, args.stats, args.total),
               b |-> classify_fragment(args.b, args.stats, args.total)]
    /\ pc' = "ret"
    /\ UNCHANGED <<all_blocks, confidence_threshold, used_texts, entry_texts, font_stats,
                   result, args>>

NextLevel == ClassifyPair

SpecLevel == InitLevel /\ [][NextLevel]_vars

\* font_size = (pct / 100) * average size
size_is_percent_of_average(font_size, stats, pct) ==
    100 * font_size * stats.size_count = pct * stats.size_sum

\* no numbered prefix, no all-caps or colon pattern, no keyword, no length penalty
is_plain_text(t) ==
    /\ level_pattern_term(strip(t)) = 0
    /\ level_keyword_term(strip(t)) = 0
    /\ level_length_term(strip(t)) = 0

\* C8: whenever a plain text at 1.3 times the average size classifies as H2
\* or lower, "1. Introduction" at the same size, boldness and position
\* classifies as H1.
C8_NumberedPatternBoost ==
    ( /\ pc = "ret"
      /\ is_plain_text(args.a.text)
      /\ args.b.text = T_Introduction
      /\ size_is_percent_of_average(args.a.font_size, args.stats, 130)
      /\ args.b.font_size = args.a.font_size
      /\ args.b.is_bold = args.a.is_bold
      /\ args.b.i = args.a.i
      /\ ret.a >= 2 )
    => ret.b = 1

\* C8 witness: a plain text at 1.3 times the average size was classified H2
\* and "1. Introduction" with the same size, boldness and position H1.
C8_Witness ==
    /\ pc = "ret"
    /\ is_plain_text(args.a.text)
    /\ args.b.text = T_Introduction
    /\ size_is_percent_of_average(args.a.font_size, args.stats, 130)
    /\ args.b.font_size = args.a.font_size
    /\ args.b.is_bold = args.a.is_bold
    /\ args.b.i = args.a.i
    /\ ret.a = 2
    /\ ret.b = 1

\* a is bold, twice the average size, at the document start; b is bold,
\* 1.05 times the average size, at the last position
is_start_and_end_pair ==
    /\ pc = "ret"
    /\ args.a.is_bold /\ args.b.is_bold
    /\ size_is_percent_of_average(args.a.font_size, args.stats, 200)
    /\ args.a.i = 0
    /\ size_is_percent_of_average(args.b.font_size, args.stats, 105)
    /\ args.b.i = args.total - 1

\* C9 as stated: the first fragment gets a strictly higher level (a lower
\* H-number) than the second.
C9_StartStrictlyAboveEnd ==
    is_start_and_end_pair => ret.a < ret.b

\* C9 amended: the first fragment is H1, so never below the second, and it is
\* strictly above the second whenever the second's pattern and keyword
\* bonuses total less than 1.0.
C9_StartIsH1AboveUnboostedEnd ==
    is_start_and_end_pair =>
        /\ ret.a = 1
        /\ ( level_pattern_term(strip(args.b.text)) + level_keyword_term(strip(args.b.text)) < 100
             => ret.b > 1 )

\* C9 witness: such a pair was classified, the second one with a plain text,
\* and the first got H1, the second H3.
C9_Witness ==
    /\ is_start_and_end_pair
    /\ is_plain_text(args.b.text)
    /\ ret.a = 1
    /\ ret.b = 3

\* the length penalty as the specification words it: the branch for more
\* than 25 words applies whenever the word count exceeds 25
level_length_penalty_as_stated(wc) ==
    IF wc > 25 THEN -100
    ELSE IF wc > 15 THEN -50
    ELSE 0

\* the level of fragment f when the length penalty is the stated one
level_with_stated_penalty(f, stats, total) ==
    level_of_score(
        level_sum([terms_of(strip(f.text)) EXCEPT
                      !.level_length = level_length_penalty_as_stated(word_count(strip(f.text)))],
                  f.font_size, stats, f.is_bold, f.i, total),
        total)

\* C11 as stated: the length penalty on the level score is -0.5 for 16 to 25
\* words and -1.0 for more than 25 words, so every fragment gets the level
\* its score with that penalty gives.
C11_LongTextPenaltyIsOne ==
    pc = "ret" =>
        /\ level_length_term(strip(args.a.text))
              = level_length_penalty_as_stated(word_count(strip(args.a.text)))
        /\ ret.a = level_with_stated_penalty(args.a, args.stats, args.total)

(***************************************************************************)
(* The word-count term of the confidence (Spec).                           *)
(***************************************************************************)
\* the word-count term as the specification words it: nothing for a text of
\* one word
confidence_length_bonus_as_stated(wc) ==
    IF 2 <= wc /\ wc <= 10 THEN 10
    ELSE IF 11 <= wc /\ wc <= 20 THEN 5
    ELSE IF wc > 30 THEN -10
    ELSE 0

\* the confidence of fragment i when the word-count term is the stated one
confidence_with_stated_bonus(i) ==
    min2(confidence_sum([terms_of(stripped_text_at(i)) EXCEPT
                            !.conf_length =
                                confidence_length_bonus_as_stated(word_count(stripped_text_at(i)))],
                        block_at(i).font_size, analyze_font_statistics(all_blocks),
                        block_at(i).is_bold, i, Len(all_blocks)),
         100 * Len(all_blocks))

\* C15 as stated: the word-count term is +0.1 for 2 to 10 words, +0.05 for
\* 11 to 20 words, -0.1 for more than 30 words and 0 otherwise, 1-word texts
\* included, so every fragment's confidence is the sum with that term.
C15_OneWordTextGetsNoBonus ==
    pc = "done" =>
        \A i \in 0..(Len(all_blocks) - 1) :
            Len(stripped_text_at(i)) >= 2 =>
                confidence_at(i) = confidence_with_stated_bonus(i)

(***************************************************************************)
(* The order and the projection of the outline (SpecLong).                 *)
(***************************************************************************)
\* the confidence of every fragment of the document, by 0-based position
confidence_table == [i \in 0..(Len(all_blocks) - 1) |-> confidence_at(i)]

\* fragment i is long enough and meets the threshold, conf its confidences
qualifies_in(conf, i) ==
    /\ Len(stripped_text_at(i)) >= 2
    /\ conf[i] >= confidence_threshold * Len(all_blocks)

\* the accepted candidates: the fragments that meet the threshold and have no
\* earlier fragment with the same stripped text that meets it
accepted_in(conf) ==
    {i \in DOMAIN conf :
        /\ qualifies_in(conf, i)
        /\ \A e \in 0..(i - 1) :
              stripped_text_at(e) = stripped_text_at(i) => ~qualifies_in(conf, e)}

\* the accepted candidate each outline entry stems from (-1 when none)
positions_of(outline, acc) ==
    [j \in 1..Len(outline) |->
        IF \E i \in acc : stripped_text_at(i) = outline[j].text
        THEN CHOOSE i \in acc : stripped_text_at(i) = outline[j].text
        ELSE -1]

\* confidence descending, position ascending among equal confidence
ranks_before(conf, i, k) ==
    \/ conf[i] > conf[k]
    \/ conf[i] = conf[k] /\ i < k

outline_is_ranked_prefix(outline, conf, acc, pos, cap) ==
    /\ Len(outline) = min2(cap, Cardinality(acc))
    /\ \A j \in 1..Len(outline) :
          /\ DOMAIN outline[j] = {"level", "text", "page"}
          /\ pos[j] \in acc
          /\ outline[j].text = stripped_text_at(pos[j])
          /\ outline[j].page = block_at(pos[j]).page
          /\ outline[j].level = level_at(pos[j])
    /\ \A j, k \in 1..Len(outline) : j < k => ranks_before(conf, pos[j], pos[k])
    /\ \A i \in acc :
          (\A j \in 1..Len(outline) : pos[j] # i) =>
              \A j \in 1..Len(outline) : ranks_before(conf, pos[j], i)

out_of_document_order(pos) ==
    \E j, k \in DOMAIN pos : j < k /\ pos[j] > pos[k]

\* an omitted candidate has the confidence of an emitted, earlier one
tie_decided_by_position(conf, acc, pos) ==
    \E j \in DOMAIN pos : \E i \in acc :
        /\ \A k \in DOMAIN pos : pos[k] # i
        /\ conf[i] = conf[pos[j]]
        /\ pos[j] < i

ZeroKinds ==
    { [text |-> T_Introduction, font_size |-> 0,  is_bold |-> FALSE],
      [text |-> T_References,   font_size |-> 0,  is_bold |-> TRUE],
      [text |-> T_Hello,        font_size |-> 12, is_bold |-> FALSE],
      [text |-> T_Summary,      font_size |-> 24, is_bold |-> TRUE] }

\* all_blocks.append(text_block)
AppendZeroBlock ==
    /\ pc = "parse"
    /\ Len(all_blocks) < MaxBlocks
    /\ \E kind \in ZeroKinds :
         all_blocks' = Append(all_blocks, text_block(kind, next_page(all_blocks)))
    /\ UNCHANGED <<confidence_threshold, used_texts, entry_texts, font_stats, result,
                   pc, args, ret>>

NextZero == AppendZeroBlock \/ ProcessDocument

SpecZero == Init /\ [][NextZero]_vars

\* the average size is a whole number of points
has_whole_average(stats) == stats.size_sum % stats.size_count = 0

average_size(stats) == stats.size_sum \div stats.size_count

\* fragment i is scored as a fragment of size font_size would be
scored_as_size(i, font_size, stats) ==
    /\ confidence_at(i)
          = calculate_heading_confidence(stripped_text_at(i), font_size, stats,
                                         block_at(i).is_bold, i, Len(all_blocks))
    /\ level_at(i)
          = classify_heading_level_dynamic(stripped_text_at(i), font_size, stats,
                                           block_at(i).is_bold, i, Len(all_blocks))

\* C12 as stated: a fragment whose font size is zero gets the confidence and
\* the level a fragment of the document's average size would get.
C12_ZeroSizeScoredAsAverage ==
    (pc = "done" /\ all_blocks # <<>> /\ has_whole_average(font_stats)) =>
        \A i \in 0..(Len(all_blocks) - 1) :
            (block_at(i).font_size = 0 /\ Len(stripped_text_at(i)) >= 2) =>
                scored_as_size(i, average_size(font_stats), font_stats)

(***************************************************************************)
(* SpecTitle: extract_title_dynamic called on documents of one-letter      *)
(* fragments with up to MaxTitleTexts longer fragments among them.         *)
(***************************************************************************)
MaxTitleBlocks == 11

MaxTitleTexts == 2

\* the one-letter fragment, too short to be a title candidate
FillerKind == [text |-> T_A, font_size |-> 12, is_bold |-> FALSE]

TitleKinds ==
    { [text |-> T_Hello,        font_size |-> 12, is_bold |-> FALSE],
      [text |-> T_Background,   font_size |-> 12, is_bold |-> FALSE],
      [text |-> T_Background,   font_size |-> 13, is_bold |-> FALSE],
      [text |-> T_Introduction, font_size |-> 18, is_bold |-> TRUE] }

title_text_count(blocks) == Cardinality({k \in 1..Len(blocks) : blocks[k].text # T_A})

\* all_blocks.append(text_block)
AppendTitleBlock ==
    /\ pc = "parse"
    /\ Len(all_blocks) < MaxTitleBlocks
    /\ \E kind \in TitleKinds \cup {FillerKind} :
         /\ kind = FillerKind \/ title_text_count(all_blocks) < MaxTitleTexts
         /\ all_blocks' = Append(all_blocks, text_block(kind, next_page(all_blocks)))
    /\ UNCHANGED <<confidence_threshold, used_texts, entry_texts, font_stats, result,
                   pc, args, ret>>

\* title = self.extract_title_dynamic(blocks), for a non-empty document
ExtractTitle ==
    /\ pc = "parse"
    /\ all_blocks # <<>>
    /\ ret' = extract_title_dynamic(all_blocks)
    /\ pc' = "ret"
    /\ UNCHANGED <<all_blocks, confidence_threshold, used_texts, entry_texts, font_stats,
                   result, args>>

NextTitle == AppendTitleBlock \/ ExtractTitle

SpecTitle == InitStats /\ [][NextTitle]_vars

\* the title is the stripped text of the candidate that no other candidate
\* beats; cands are the 0-based candidate positions, score their scores
is_best_candidate_text(title, cands, score) ==
    \E i \in cands :
        /\ title = stripped_text_at(i)
        /\ \A j \in cands \ {i} :
              \/ score[j] < score[i]
              \/ score[j] = score[i] /\ block_at(j).font_size < block_at(i).font_size
              \/ score[j] = score[i] /\ block_at(j).font_size = block_at(i).font_size /\ i < j

\* the positions of the leading window whose stripped text has 3 characters
\* or more
window_candidates(window) ==
    {i \in 0..(min2(window, Len(all_blocks)) - 1) : Len(stripped_text_at(i)) >= 3}

\* the title scores of the positions cands, for the window length given
window_scores(cands, window) ==
    [i \in cands |->
        title_score(block_at(i), i, window, analyze_font_statistics(all_blocks))]

====
